---- MODULE Spec2Model ----
(***************************************************************************)
(* Model of checkin.py: the multi-account check-in run (main / run_main),  *)
(* the per-account orchestrator (check_in_account) and their helpers.      *)
(*                                                                         *)
(* Representation                                                          *)
(*  - a Python str that the code inspects (a cookie payload) is a sequence *)
(*    of characters.  A character of ASCII is the string that holds it     *)
(*    ("a", "=", "\t"); any other character is the string of its code      *)
(*    point, "U+" and at least four hexadecimal digits ("U+00E9",         *)
(*    "U+3000"), so that no text depends on the encoding of this file;    *)
(*  - a dict is a function with a finite domain; None is the record None;  *)
(*  - the responses of the provider, of the browser, of the file system    *)
(*    and of the notifier are inputs, drawn with \E in the step that       *)
(*    receives them;                                                       *)
(*  - the accounts list is read once, front to back, by main's for loop:   *)
(*    the element is drawn when the loop reaches it;                       *)
(*  - client, context and reqs record, for the account being processed,    *)
(*    the resources held and the requests issued; they are reset when the  *)
(*    loop moves on.                                                       *)
(***************************************************************************)
EXTENDS Integers, Sequences, FiniteSets, TLC

\* ---------------------------------------------------------------- bounds
MaxAccounts == 2
\* entries of a balance mapping handed to generate_balance_hash on its own
MaxBalances == 2
\* characters of a cookie string handed to parse_cookies on its own
MaxCookieLen == 4

\* ------------------------------------------------------- program constants
QuotaScale == 500000
MsgLimit == 50

None == [none |-> TRUE]

\* ------------------------------------------------------------ str helpers
\* The characters str.strip() removes, those with str.isspace(): U+0009 to
\* U+000D, U+001C to U+001F, the blank, U+0085, U+00A0, U+1680, U+2000 to
\* U+200A, U+2028, U+2029, U+202F, U+205F and U+3000.
Whitespace ==
    {"\t", "\n", "", "\f", "\r", "", "", "", "", " ",
     "U+0085", "U+00A0", "U+1680",
     "U+2000", "U+2001", "U+2002", "U+2003", "U+2004", "U+2005", "U+2006",
     "U+2007", "U+2008", "U+2009", "U+200A",
     "U+2028", "U+2029", "U+202F", "U+205F", "U+3000"}

RECURSIVE LStrip(_)
LStrip(s) == IF s # <<>> /\ Head(s) \in Whitespace THEN LStrip(Tail(s)) ELSE s

RECURSIVE RStrip(_)
RStrip(s) ==
    IF s # <<>> /\ s[Len(s)] \in Whitespace THEN RStrip(SubSeq(s, 1, Len(s) - 1)) ELSE s

\* str.strip()
Strip(s) == RStrip(LStrip(s))

\* c in s
Contains(s, c) == \E k \in 1..Len(s) : s[k] = c

\* index of the first occurrence of c in s (c occurs in s)
FirstIndex(s, c) == CHOOSE k \in 1..Len(s) : s[k] = c /\ \A j \in 1..(k - 1) : s[j] # c

\* s.split(c)
RECURSIVE Split(_, _)
Split(s, c) ==
    IF ~Contains(s, c) THEN <<s>>
    ELSE LET k == FirstIndex(s, c)
         IN <<SubSeq(s, 1, k - 1)>> \o Split(SubSeq(s, k + 1, Len(s)), c)

\* (mutation) the split is made at the last occurrence of c
Split1_AtLast(s, c) ==
    LET k == CHOOSE k \in 1..Len(s) : s[k] = c /\ \A j \in (k + 1)..Len(s) : s[j] # c
    IN <<SubSeq(s, 1, k - 1), SubSeq(s, k + 1, Len(s))>>

\* s.split(c, 1) for an s that contains c
Split1(s, c) ==
    LET k == FirstIndex(s, c)
    IN <<SubSeq(s, 1, k - 1), SubSeq(s, k + 1, Len(s))>>

\* str(e)[:50] : an exception text is [id, len]; the slice keeps 50 characters
Truncate(e) == [id |-> e.id, len |-> IF e.len > MsgLimit THEN MsgLimit ELSE e.len]

\* ------------------------------------------------------------ dict helpers
EmptyDict == <<>>

\* {**a, **b}
Merge(a, b) == b @@ a

\* d[k] = v
Put(d, k, v) == (k :> v) @@ d

\* --------------------------------------------------------- parse_cookies
RECURSIVE ParseSegments(_, _)
ParseSegments(segs, cookies_dict) ==
    IF segs = <<>> THEN cookies_dict
    ELSE LET cookie == Head(segs)
         IN IF Contains(cookie, "=")
            THEN LET kv == Split1(Strip(cookie), "=")
                 IN ParseSegments(Tail(segs), Put(cookies_dict, kv[1], kv[2]))
            ELSE ParseSegments(Tail(segs), cookies_dict)

parse_cookies(cookies_data) ==
    IF cookies_data.kind = "dict" THEN cookies_data.val
    ELSE IF cookies_data.kind = "str" THEN ParseSegments(Split(cookies_data.val, ";"), EmptyDict)
    ELSE EmptyDict

\* ------------------------------------------------- generate_balance_hash
\* decimal digits of n >= 0, most significant first
RECURSIVE Digits(_)
Digits(n) == IF n < 10 THEN <<n>> ELSE Digits(n \div 10) \o <<n % 10>>

\* a < b for two strings of digits, in the order of str
RECURSIVE LexLess(_, _)
LexLess(a, b) ==
    IF a = <<>> THEN b # <<>>
    ELSE IF b = <<>> THEN FALSE
    ELSE IF Head(a) # Head(b) THEN Head(a) < Head(b)
    ELSE LexLess(Tail(a), Tail(b))

\* account_key is f'account_{i + 1}', kept as the number i + 1; json.dumps
\* (sort_keys=True) orders the keys as strings
KeyLess(k1, k2) == LexLess(Digits(k1), Digits(k2))

RECURSIVE SortKeys(_)
SortKeys(S) ==
    IF S = {} THEN <<>>
    ELSE LET m == CHOOSE x \in S : \A y \in S \ {x} : KeyLess(x, y)
         IN <<m>> \o SortKeys(S \ {m})

\* balances is a dict in insertion order: a sequence of [key, quota, used]
\* with distinct keys.  balances[key] = {'quota': quota, 'used': used}
SetBalance(balances, key, quota, used) ==
    IF \E k \in 1..Len(balances) : balances[k].key = key
    THEN [k \in 1..Len(balances) |->
            IF balances[k].key = key THEN [key |-> key, quota |-> quota, used |-> used]
            ELSE balances[k]]
    ELSE Append(balances, [key |-> key, quota |-> quota, used |-> used])

\* {k: v['quota'] for k, v in balances.items()}
SimpleBalances(balances) ==
    [key \in {balances[k].key : k \in 1..Len(balances)} |->
        (CHOOSE e \in {balances[k] : k \in 1..Len(balances)} : e.key = key).quota]

\* (mutation) json.dumps without sort_keys: the text follows insertion order
generate_balance_hash_InsertionOrder(balances) ==
    [digest |-> [k \in 1..Len(balances) |-> <<balances[k].key, balances[k].quota>>]]

\* The digest stands for the text it is computed from: the fingerprint is
\* [digest |-> the sequence of <<key, quota>> in the order of the JSON text].
generate_balance_hash(balances) ==
    LET simple_balances == IF balances # <<>> THEN SimpleBalances(balances) ELSE EmptyDict
        keys == SortKeys(DOMAIN simple_balances)
    IN [digest |-> [k \in 1..Len(keys) |-> <<keys[k], simple_balances[keys[k]]>>]]

\* ---------------------------------------------------------- get_user_info
\* d.get(k, default)
Get(d, k, default) == IF k \in DOMAIN d THEN d[k] ELSE default

\* A float with two decimals is [neg, hundredths]: its sign and its magnitude
\* in hundredths, as repr and json.dumps print it; -0.0 is the float with
\* neg and 0 hundredths.
Float(neg, hundredths) == [neg |-> neg, hundredths |-> hundredths]

\* number of binary digits of i >= 0
RECURSIVE BitLen(_)
BitLen(i) == IF i = 0 THEN 0 ELSE 1 + BitLen(i \div 2)

\* The binary digits of r / 200 (0 <= r < 200) are produced, sixteen at a
\* time, until todo digits of the significand are written (started: its
\* leading 1 is written; last: the digit written last).  The value is how
\* the double is rounded: 1 away from zero, -1 towards zero, 0 when nothing
\* is left over.
RECURSIVE FracRound(_, _, _, _)
FracRound(r, todo, started, last) ==
    IF r = 0 THEN 0
    ELSE IF todo = 0
    THEN IF r > 100 THEN 1
         ELSE IF r < 100 THEN -1
         ELSE IF last = 1 THEN 1 ELSE -1
    ELSE LET k == IF todo < 16 THEN todo ELSE 16
             digits == (r * 2^k) \div 200
             rest == (r * 2^k) % 200
         IN IF started THEN FracRound(rest, todo - k, TRUE, digits % 2)
            ELSE IF digits = 0 THEN FracRound(rest, todo, FALSE, 0)
            ELSE FracRound(rest, todo - BitLen(digits), TRUE, digits % 2)

\* digits of the significand of a double
Significand == 53

\* The double nearest to n / 200 (n > 0 odd, a value half way between two
\* hundredths) compared with n / 200: 1 above, -1 below, 0 equal.
DoubleVersus(n) ==
    LET whole == n \div 200
    IN IF whole > 0
       THEN FracRound(n % 200, Significand - BitLen(whole), TRUE, whole % 2)
       ELSE FracRound(n % 200, Significand, FALSE, 0)

\* round(raw / 500000, 2) for an int raw.  The quotient is a double; where
\* raw / 500000 lies half way between two hundredths the double lies above or
\* below it and round goes that way, and to the even hundredth when the
\* double is exact.  A negative raw above -2500 gives -0.0.
Scale(raw) ==
    LET unit == QuotaScale \div 100
        a == IF raw < 0 THEN 0 - raw ELSE raw
        q == a \div unit
        r == a % unit
        v == DoubleVersus(2 * q + 1)
    IN Float(raw < 0,
             IF 2 * r > unit THEN q + 1
             ELSE IF 2 * r < unit THEN q
             ELSE IF v > 0 THEN q + 1
             ELSE IF v < 0 THEN q
             ELSE IF q % 2 = 0 THEN q ELSE q + 1)

\* A reply to client.get / client.post is
\*   [kind |-> "raise", e |-> text]            the call raised (network)
\*   [kind |-> "resp", status, body]           a response
\* and a body is
\*   [json |-> "obj", obj |-> dict]            a JSON object
\*   [json |-> "other", type |-> name]         JSON, but not an object
\*   [json |-> "invalid", text |-> str, e]     not JSON
\* where type names the Python type of the value ("list", "str", "int",
\* "float", "bool" or "NoneType") and e is the exception response.json()
\* raises for the text.

\* json.JSONDecodeError with a message of len characters.  The message is
\* the decoder's: "Expecting value: line 1 column 1 (char 0)" (41) for a
\* text that begins with no JSON value, "Expecting property name enclosed in
\* double quotes: line 1 column 2 (char 1)" (75) for "{a:1}".
JSONDecodeError(len) == [id |-> "JSONDecodeError", len |-> len]

\* a body that is not JSON
Invalid(text, len) == [json |-> "invalid", text |-> text, e |-> JSONDecodeError(len)]

TypeNameLen ==
    [list |-> 4, dict |-> 4, str |-> 3, int |-> 3, float |-> 5, bool |-> 4, NoneType |-> 8]

\* The exception of value.get(...) for a value that is no dict:
\* "'list' object has no attribute 'get'"
AttributeError(type) == [id |-> "AttributeError", len |-> TypeNameLen[type] + 32]

\* An amount of the data object (quota, used_quota) is a JSON value:
\*   [num |-> n]                              a number
\*   [bool |-> b]                             true or false
\*   None                                     null
\*   [json |-> "other", type |-> name]        a string, an array, an object
Num(n) == [num |-> n]

\* round(amount / 500000, 2), lines 141-142: [raised, val, e].  A bool is
\* an int in Python: True / 500000 is 1 / 500000.  An amount Python cannot
\* divide raises TypeError, "unsupported operand type(s) for /: 'NoneType'
\* and 'int'": 47 characters and the name of the type.
Divide(amount) ==
    LET TypeError(type) == [id |-> "TypeError", len |-> TypeNameLen[type] + 47]
    IN IF amount = None
       THEN [raised |-> TRUE, val |-> None, e |-> TypeError("NoneType")]
       ELSE IF "num" \in DOMAIN amount
       THEN [raised |-> FALSE, val |-> Scale(amount.num), e |-> None]
       ELSE IF "bool" \in DOMAIN amount
       THEN [raised |-> FALSE, val |-> Scale(IF amount.bool THEN 1 ELSE 0), e |-> None]
       ELSE [raised |-> TRUE, val |-> None, e |-> TypeError(amount.type)]

HttpError(status) == [kind |-> "http", status |-> status]
ExcError(e) == [kind |-> "exc", text |-> Truncate(e)]

\* (mutation) the success field of the body is not consulted
get_user_info_IgnoresSuccess(reply) ==
    IF reply.kind = "raise" THEN [success |-> FALSE, error |-> ExcError(reply.e)]
    ELSE IF reply.status = 200 /\ reply.body.json = "obj"
         THEN LET user_data == Get(reply.body.obj, "data", EmptyDict)
              IN IF user_data = None
                 THEN [success |-> FALSE, error |-> ExcError(AttributeError("NoneType"))]
                 ELSE IF "json" \in DOMAIN user_data
                 THEN [success |-> FALSE, error |-> ExcError(AttributeError(user_data.type))]
                 ELSE LET quota == Divide(Get(user_data, "quota", Num(0)))
                          used_quota == Divide(Get(user_data, "used_quota", Num(0)))
                      IN IF quota.raised
                         THEN [success |-> FALSE, error |-> ExcError(quota.e)]
                         ELSE IF used_quota.raised
                         THEN [success |-> FALSE, error |-> ExcError(used_quota.e)]
                         ELSE [success |-> TRUE, quota |-> quota.val,
                               used_quota |-> used_quota.val,
                               display |-> [quota |-> quota.val, used |-> used_quota.val]]
    ELSE [success |-> FALSE, error |-> HttpError(reply.status)]

\* The whole body is inside try / except Exception: whatever raises in it
\* (the request, response.json(), .get on a value that is no dict, the
\* division of an amount that is no number) comes back as the failure
\* outcome with the text of the exception.  A JSON null is None; a data
\* that is a string or an array is [json |-> "other", type |-> name].
get_user_info(reply) ==
    IF reply.kind = "raise" THEN [success |-> FALSE, error |-> ExcError(reply.e)]
    ELSE IF reply.status = 200 /\ reply.body.json = "invalid"
         THEN [success |-> FALSE, error |-> ExcError(reply.body.e)]
    ELSE IF reply.status = 200 /\ reply.body.json = "other"
         THEN [success |-> FALSE, error |-> ExcError(AttributeError(reply.body.type))]
    ELSE IF reply.status = 200 /\ Get(reply.body.obj, "success", FALSE)
         THEN LET user_data == Get(reply.body.obj, "data", EmptyDict)
              IN IF user_data = None
                 THEN [success |-> FALSE, error |-> ExcError(AttributeError("NoneType"))]
                 ELSE IF "json" \in DOMAIN user_data
                 THEN [success |-> FALSE, error |-> ExcError(AttributeError(user_data.type))]
                 ELSE LET quota == Divide(Get(user_data, "quota", Num(0)))
                          used_quota == Divide(Get(user_data, "used_quota", Num(0)))
                      IN IF quota.raised
                         THEN [success |-> FALSE, error |-> ExcError(quota.e)]
                         ELSE IF used_quota.raised
                         THEN [success |-> FALSE, error |-> ExcError(used_quota.e)]
                         ELSE [success |-> TRUE, quota |-> quota.val,
                               used_quota |-> used_quota.val,
                               display |-> [quota |-> quota.val, used |-> used_quota.val]]
    ELSE [success |-> FALSE, error |-> HttpError(reply.status)]

\* ------------------------------------------------------- execute_check_in
\* Line 193, 'success' in response.text.lower().  str.lower() gives the
\* letters c, e, s and u for these letters and for their capitals, and for
\* no other character: the characters whose lower-case form depends on the
\* context (the capital sigma) or has two characters (U+0130) give none of
\* them.  So the lowered text holds the word exactly where the text holds
\* it with every letter in either case.

\* ch.lower() == letter, for a letter of the word
LowersTo(ch, letter) ==
    ch = letter \/ ch = [c |-> "C", e |-> "E", s |-> "S", u |-> "U"][letter]

\* word in text.lower(), for a word of the letters c, e, s, u
InLower(word, text) ==
    \E k \in 0..(Len(text) - Len(word)) :
        \A j \in 1..Len(word) : LowersTo(text[k + j], word[j])

SuccessWord == <<"s", "u", "c", "c", "e", "s", "s">>

\* The value of execute_check_in for a reply to the POST: [raised, val, e].
\* client.post raising, and result.get on a JSON value that is no object,
\* leave the function as exceptions.
execute_check_in(reply) ==
    IF reply.kind = "raise" THEN [raised |-> TRUE, val |-> FALSE, e |-> reply.e]
    ELSE IF reply.status = 200
    THEN IF reply.body.json = "obj"
         THEN LET result == reply.body.obj
              IN [raised |-> FALSE,
                  val |-> \/ Get(result, "ret", 0) = 1
                          \/ Get(result, "code", 1) = 0
                          \/ Get(result, "success", FALSE),
                  e |-> None]
         ELSE IF reply.body.json = "other"
         THEN [raised |-> TRUE, val |-> FALSE, e |-> AttributeError(reply.body.type)]
         ELSE [raised |-> FALSE,
               val |-> InLower(SuccessWord, reply.body.text),
               e |-> None]
    ELSE [raised |-> FALSE, val |-> FALSE, e |-> None]

\* -------------------------------------------------------- provider profiles
\* utils.config: a profile says whether the check-in needs an explicit
\* request and whether anti-bot cookies must be bootstrapped, and lists the
\* names of the required anti-bot cookies.
W1 == <<"w">>
W2 == <<"v">>

Providers ==
    [anyrouter   |-> [manual |-> TRUE,  waf |-> TRUE,  waf_cookie_names |-> <<W1, W2>>],
     agentrouter |-> [manual |-> FALSE, waf |-> FALSE, waf_cookie_names |-> <<>>],
     wafauto     |-> [manual |-> FALSE, waf |-> TRUE,  waf_cookie_names |-> <<W1, W2>>],
     wafbare     |-> [manual |-> TRUE,  waf |-> TRUE,  waf_cookie_names |-> <<>>],
     plain       |-> [manual |-> TRUE,  waf |-> FALSE, waf_cookie_names |-> <<>>]]

\* AppConfig.get_provider
get_provider(name) == IF name \in DOMAIN Providers THEN Providers[name] ELSE None

\* ProviderConfig.needs_waf_cookies / needs_manual_check_in
needs_waf_cookies(provider_config) == provider_config.waf
needs_manual_check_in(provider_config) == provider_config.manual

\* AccountConfig.get_display_name(i): the default name of account i
get_display_name(index) == index + 1

\* ------------------------------------------ get_waf_cookies_with_playwright
\* What the browser does in one bootstrap:
\*   [stage |-> "launch_raise"]    launch_persistent_context raises
\*   [stage |-> "newpage_raise"]   context.new_page raises
\*   [stage |-> "goto_raise", close]    page.goto / context.cookies raises
\*   [stage |-> "cookies", cookies, close]   the cookies of the session
\* close says what context.close() does: it returns ("ok"), it raises every
\* time ("raise"), or it raises the first time it is called and returns the
\* second time ("raise_once").  The code calls it at line 117 or 122 and,
\* when anything inside the try raised, once more in the handler at line 128.
BrowserError == [id |-> "PlaywrightError", len |-> 120]

InSeq(x, seq) == \E k \in 1..Len(seq) : seq[k] = x

RECURSIVE CollectWaf(_, _, _)
CollectWaf(cookies, required_cookies, waf_cookies) ==
    IF cookies = <<>> THEN waf_cookies
    ELSE LET cookie == Head(cookies)
         IN IF InSeq(cookie.name, required_cookies) /\ ~cookie.null
            THEN CollectWaf(Tail(cookies), required_cookies,
                            Put(waf_cookies, cookie.name, cookie.value))
            ELSE CollectWaf(Tail(cookies), required_cookies, waf_cookies)

\* lines 126-129: the handler of the try closes the context and returns
\* None; `nth` is the number of this call of context.close() (1 or 2)
CloseInHandler(close, nth) ==
    IF close = "ok" \/ (close = "raise_once" /\ nth = 2)
    THEN [raised |-> FALSE, val |-> None, context |-> "closed"]
    ELSE [raised |-> TRUE, val |-> None, context |-> "open"]

\* [raised, val, context]: the dict of anti-bot cookies or None, or the
\* exception that leaves the function, and whether a call of
\* context.close() returned ("closed"), none did ("open") or no context
\* exists ("none")
get_waf_cookies_with_playwright(browser, required_cookies) ==
    IF browser.stage = "launch_raise"
    THEN [raised |-> TRUE, val |-> None, context |-> "none"]
    ELSE IF browser.stage = "newpage_raise"
    THEN [raised |-> TRUE, val |-> None, context |-> "open"]
    ELSE IF browser.stage = "goto_raise"
    THEN CloseInHandler(browser.close, 1)
    ELSE LET waf_cookies == CollectWaf(browser.cookies, required_cookies, EmptyDict)
             missing_cookies == {k \in 1..Len(required_cookies) :
                                    required_cookies[k] \notin DOMAIN waf_cookies}
         IN IF browser.close # "ok"
            THEN CloseInHandler(browser.close, 2)
            ELSE IF missing_cookies # {}
            THEN [raised |-> FALSE, val |-> None, context |-> "closed"]
            ELSE [raised |-> FALSE, val |-> waf_cookies, context |-> "closed"]

\* -------------------------------------------------------- prepare_cookies
\* not d, for a dict or None
Falsy(d) == d = None \/ DOMAIN d = {}

\* (mutation) a failed bootstrap is ignored and the user cookies are used
prepare_cookies_IgnoreMissing(provider_config, user_cookies, browser) ==
    IF needs_waf_cookies(provider_config)
    THEN LET waf == get_waf_cookies_with_playwright(browser, provider_config.waf_cookie_names)
         IN IF waf.raised THEN waf
            ELSE IF Falsy(waf.val)
            THEN [raised |-> FALSE, val |-> Merge(EmptyDict, user_cookies), context |-> waf.context]
            ELSE [raised |-> FALSE, val |-> Merge(waf.val, user_cookies), context |-> waf.context]
    ELSE [raised |-> FALSE, val |-> Merge(EmptyDict, user_cookies), context |-> "none"]

prepare_cookies(provider_config, user_cookies, browser) ==
    IF needs_waf_cookies(provider_config)
    THEN LET waf == get_waf_cookies_with_playwright(browser, provider_config.waf_cookie_names)
         IN IF waf.raised THEN waf
            ELSE IF Falsy(waf.val) THEN [raised |-> FALSE, val |-> None, context |-> waf.context]
            ELSE [raised |-> FALSE, val |-> Merge(waf.val, user_cookies), context |-> waf.context]
    ELSE [raised |-> FALSE, val |-> Merge(EmptyDict, user_cookies), context |-> "none"]

\* ------------------------------------------------------------------ inputs
NetError == [id |-> "ConnectTimeout", len |-> 30]
\* what httpx.Client(http2=True, timeout=30.0) raises when it cannot be built
ClientError == [id |-> "ImportError", len |-> 60]
ConfigError == [id |-> "ConfigError", len |-> 60]
NotifyError == [id |-> "NotifyError", len |-> 20]

Some(v) == [some |-> v]

\* cookie payloads of an account: "w=u; s=1", "junk", {}
CookiePayloads ==
    {[kind |-> "str", val |-> <<"w", "=", "u", ";", " ", "s", "=", "1">>],
     [kind |-> "str", val |-> <<"j", "u", "n", "k">>],
     [kind |-> "dict", val |-> EmptyDict]}

\* an account names one of the providers or "ghost", which is none of them
AccountChoices ==
    [provider : {"anyrouter", "agentrouter", "wafauto", "wafbare", "plain", "ghost"},
     cookies : CookiePayloads]

Cookie(name, value) == [name |-> name, value |-> value, null |-> FALSE]

BrowserChoices ==
    {[stage |-> "launch_raise"],
     [stage |-> "newpage_raise"],
     [stage |-> "goto_raise", close |-> "ok"],
     [stage |-> "cookies", cookies |-> <<Cookie(W1, <<"a">>), Cookie(W2, <<"b">>)>>, close |-> "ok"],
     [stage |-> "cookies", cookies |-> <<Cookie(W1, <<"a">>)>>, close |-> "ok"],
     [stage |-> "cookies", cookies |-> <<>>, close |-> "ok"],
     [stage |-> "cookies", cookies |-> <<Cookie(W1, <<"a">>), Cookie(W2, <<"b">>)>>, close |-> "raise"],
     [stage |-> "cookies", cookies |-> <<Cookie(W1, <<"a">>), Cookie(W2, <<"b">>)>>, close |-> "raise_once"],
     [stage |-> "goto_raise", close |-> "raise"]}

Resp(status, body) == [kind |-> "resp", status |-> status, body |-> body]
Obj(obj) == [json |-> "obj", obj |-> obj]
Raise(e) == [kind |-> "raise", e |-> e]

PostReplies ==
    {Raise(NetError),
     Resp(500, Invalid(<<"e", "r", "r">>, 41)),
     Resp(200, Obj("ret" :> 1)),
     Resp(200, Obj("success" :> FALSE)),
     Resp(200, Invalid(<<"S", "u", "c", "c", "e", "s", "s">>, 41)),
     Resp(200, [json |-> "other", type |-> "list"])}

\* the last reply reports a raw quota and a raw used quota
GetReplies ==
    {Raise(NetError),
     Resp(500, Invalid(<<"e", "r", "r">>, 41)),
     Resp(200, Obj("success" :> FALSE)),
     Resp(200, Obj(("success" :> TRUE)
                   @@ ("data" :> (("quota" :> Num(1000000)) @@ ("used_quota" :> Num(500000))))))}

\* the fingerprint left in balance_hash.txt by the previous run, if any
NoFile == [nofile |-> TRUE]
\* the empty text: the content of a file that was opened for writing and
\* never written, and what f.read().strip() gives for it
EmptyText == [text |-> <<>>]
OldFingerprints == {[digest |-> <<<<1, Float(FALSE, 200)>>>>]}

\* ------------------------------------------------------------------- state
VARIABLES
    pc,                   \* position in run_main / main / check_in_account
    script,               \* what the outside world is set to answer (<<>>: anything)
    hash_file,            \* content of balance_hash.txt (a fingerprint or EmptyText), or NoFile
    step_summary,         \* rows appended to the GITHUB_STEP_SUMMARY file
    last_balance_hash,    \* main
    total_count,          \* main
    i,                    \* main: the loop index (-1 before the loop)
    success_count,        \* main
    notification_content, \* main
    current_balances,     \* main
    summary_results,      \* main
    account,              \* main: the loop's account
    provider_config,      \* check_in_account
    user_cookies,         \* check_in_account
    all_cookies,          \* check_in_account
    check_in_success,     \* check_in_account
    user_info,            \* check_in_account
    ret,                  \* value returned by check_in_account
    exc,                  \* exception in flight
    reqs,                 \* requests issued for the loop's account, in order
    client,               \* the account's httpx.Client: "none", "open", "closed"
    context,              \* the account's browser context: "none", "open", "closed"
    hash_reads,           \* number of calls of load_balance_hash
    saves,                \* calls of save_balance_hash: <<accounts processed, fingerprint>>
    pushes,               \* calls of notify.push_message
    exit_code,            \* process exit code, None while running
    exit_via,             \* how the process ended
    call,                 \* a function called on its own: its name and arguments
    returned              \* what that call returned, None before it returns

vars == <<pc, script, hash_file, step_summary, last_balance_hash, total_count, i,
          success_count, notification_content, current_balances, summary_results,
          account, provider_config, user_cookies, all_cookies, check_in_success,
          user_info, ret, exc, reqs, client, context, hash_reads, saves, pushes,
          exit_code, exit_via, call, returned>>

mainVars == <<last_balance_hash, total_count, i, success_count, notification_content,
              current_balances, summary_results, account>>
accountVars == <<provider_config, user_cookies, all_cookies, check_in_success,
                 user_info, ret, reqs, client, context>>
worldVars == <<hash_file, step_summary, hash_reads, saves, pushes>>

\* the world's answer v to the request `what` of the loop's account is one
\* the script allows
Scripted(what, v) == IF script = <<>> THEN TRUE ELSE v \in script[i + 1][what]

\* the state when run_main is entered, but for the script
InitRun ==
    /\ pc = "start"
    /\ hash_file \in {NoFile, EmptyText} \cup OldFingerprints
    /\ step_summary = <<>>
    /\ last_balance_hash = None
    /\ total_count = 0
    /\ i = -1
    /\ success_count = 0
    /\ notification_content = <<>>
    /\ current_balances = <<>>
    /\ summary_results = <<>>
    /\ account = None
    /\ provider_config = None
    /\ user_cookies = None
    /\ all_cookies = None
    /\ check_in_success = None
    /\ user_info = None
    /\ ret = None
    /\ exc = None
    /\ reqs = <<>>
    /\ client = "none"
    /\ context = "none"
    /\ hash_reads = 0
    /\ saves = <<>>
    /\ pushes = <<>>
    /\ exit_code = None
    /\ exit_via = "running"
    /\ call = None
    /\ returned = None

Init ==
    /\ script = <<>>
    /\ InitRun

\* sys.exit(code) and the handlers of run_main
Exited(code, via) ==
    /\ pc' = "exited"
    /\ exit_code' = Some(code)
    /\ exit_via' = via

\* ------------------------------------------------------ load / save the hash
\* load_balance_hash: the stored fingerprint, None when the file does not
\* exist or cannot be read.  (strip() leaves a hex digest and the empty
\* text as they are.)
load_balance_hash(file, readable) ==
    IF file # NoFile /\ readable THEN file ELSE None

\* save_balance_hash: the file after the call, by what the file system
\* does: the file is written ("written"); open(..., 'w') raises and the file
\* stays as it was ("not_opened"); open succeeds, which empties the file,
\* and the write raises ("not_written").  The exception of a failing open
\* or write is only logged.
save_balance_hash(file, balance_hash, outcome) ==
    IF outcome = "written" THEN balance_hash
    ELSE IF outcome = "not_opened" THEN file
    ELSE EmptyText

\* ------------------------------------------------------- run_main and main
\* main, lines 306-307 and 309: loading the configuration raises
StartFail ==
    /\ pc = "start"
    /\ script = <<>>
    /\ exc' = ConfigError
    /\ pc' = "raised"
    /\ UNCHANGED <<script, call, returned, mainVars, accountVars, worldVars, exit_code, exit_via>>

\* main, lines 309-312: no accounts
StartNoAccounts ==
    /\ pc = "start"
    /\ script = <<>>
    /\ Exited(1, "no_accounts")
    /\ UNCHANGED <<script, call, returned, mainVars, accountVars, worldVars, exc>>

\* main, lines 309-325: accounts loaded, last fingerprint read
StartLoop ==
    /\ pc = "start"
    /\ \E n \in IF script = <<>> THEN 1..MaxAccounts ELSE {Len(script)}, readable \in BOOLEAN :
        /\ total_count' = n
        /\ last_balance_hash' = load_balance_hash(hash_file, readable)
    /\ hash_reads' = hash_reads + 1
    /\ pc' = "loop"
    /\ UNCHANGED <<script, call, returned, i, success_count, notification_content, current_balances,
                   summary_results, account, accountVars, hash_file, step_summary,
                   saves, pushes, exc, exit_code, exit_via>>

\* main, lines 327-332: the for loop takes the next account and calls
\* check_in_account
LoopNext ==
    /\ pc = "loop"
    /\ i + 1 < total_count
    /\ i' = i + 1
    /\ \E a \in AccountChoices :
        /\ IF script = <<>> THEN TRUE ELSE a \in script[i + 2].account
        /\ account' = a
    /\ provider_config' = None
    /\ user_cookies' = None
    /\ all_cookies' = None
    /\ check_in_success' = None
    /\ user_info' = None
    /\ ret' = None
    /\ exc' = None
    /\ reqs' = <<>>
    /\ client' = "none"
    /\ context' = "none"
    /\ pc' = "resolve"
    /\ UNCHANGED <<script, call, returned, last_balance_hash, total_count, success_count,
                   notification_content, current_balances, summary_results,
                   worldVars, exit_code, exit_via>>

\* the value check_in_account returns early
EarlyReturn == [success |-> FALSE, user_info |-> None]

\* check_in_account, lines 209-214
Resolve ==
    /\ pc = "resolve"
    /\ provider_config' = get_provider(account.provider)
    /\ IF provider_config' = None
       THEN ret' = EarlyReturn /\ pc' = "record"
       ELSE ret' = ret /\ pc' = "parse"
    /\ UNCHANGED <<script, call, returned, mainVars, user_cookies, all_cookies, check_in_success,
                   user_info, reqs, client, context, worldVars, exc, exit_code, exit_via>>

\* check_in_account, lines 216-219
Parse ==
    /\ pc = "parse"
    /\ user_cookies' = parse_cookies(account.cookies)
    /\ IF Falsy(user_cookies')
       THEN ret' = EarlyReturn /\ pc' = "record"
       ELSE ret' = ret /\ pc' = "prepare"
    /\ UNCHANGED <<script, call, returned, mainVars, provider_config, all_cookies, check_in_success,
                   user_info, reqs, client, context, worldVars, exc, exit_code, exit_via>>

NoBrowser == [stage |-> "unused"]

\* number of required cookie names the browser session delivered
RequiredGot(browser, required_cookies) ==
    IF browser.stage = "cookies"
    THEN Cardinality(DOMAIN CollectWaf(browser.cookies, required_cookies, EmptyDict))
    ELSE 0

\* how the bootstrap ended: it raised, returned None or returned cookies
BootstrapResult(r) == IF r.raised THEN "raised" ELSE IF r.val = None THEN "None" ELSE "cookies"

\* the request log after prepare_cookies: a bootstrap that ended with r
\* leaves an entry
AfterBootstrap(log, browser, config, r) ==
    IF needs_waf_cookies(config)
    THEN Append(log, [op |-> "bootstrap", stage |-> browser.stage,
                      got |-> RequiredGot(browser, config.waf_cookie_names),
                      result |-> BootstrapResult(r)])
    ELSE log

\* check_in_account, lines 221-225: prepare_cookies, then the HTTP client;
\* line 225 stands before the try of line 227, so that an exception of
\* httpx.Client leaves check_in_account with no client to close
Prepare ==
    /\ pc = "prepare"
    /\ \E browser \in IF needs_waf_cookies(provider_config) THEN BrowserChoices ELSE {NoBrowser} :
        /\ Scripted("browser", browser)
        /\ LET r == prepare_cookies(provider_config, user_cookies, browser)
           IN /\ context' = r.context
              /\ reqs' = AfterBootstrap(reqs, browser, provider_config, r)
              /\ IF r.raised
                 THEN /\ exc' = BrowserError
                      /\ pc' = "except"
                      /\ UNCHANGED <<all_cookies, ret, client>>
                 ELSE /\ all_cookies' = r.val
                      /\ IF Falsy(r.val)
                         THEN /\ ret' = EarlyReturn /\ pc' = "record"
                              /\ client' = client /\ exc' = exc
                         ELSE \E built \in BOOLEAN :
                                /\ Scripted("client", built)
                                /\ IF built
                                   THEN /\ ret' = ret /\ pc' = "checkin"
                                        /\ client' = "open" /\ exc' = exc
                                   ELSE /\ ret' = ret /\ pc' = "except"
                                        /\ client' = client /\ exc' = ClientError
    /\ UNCHANGED <<script, call, returned, mainVars, provider_config, user_cookies, check_in_success,
                   user_info, worldVars, exit_code, exit_via>>

ReplyStatus(reply) == IF reply.kind = "raise" THEN None ELSE Some(reply.status)

\* how execute_check_in ended: it raised, or returned True or False
CheckInResult(r) == IF r.raised THEN "raised" ELSE IF r.val THEN "True" ELSE "False"

\* (mutation) a check-in that failed is tried again
AfterCheckIn_Retry(success) == IF success THEN "sleep" ELSE "checkin"

\* (mutation) the balance is requested right after the check-in response
AfterCheckIn_NoPause(success) == "balance"

\* check_in_account, lines 249-254: after execute_check_in returned, pause
\* for a second if the check-in succeeded, then ask for the balance
AfterCheckIn(success) == IF success THEN "sleep" ELSE "balance"

\* the entries of the request log for the POST and the GET
PostEntry(reply) ==
    [op |-> "post", status |-> ReplyStatus(reply),
     result |-> CheckInResult(execute_check_in(reply))]

GetEntry(reply) ==
    [op |-> "get", status |-> ReplyStatus(reply),
     result |-> IF get_user_info(reply).success THEN "True" ELSE "False"]

\* check_in_account, lines 227-252 (and 269-273 when the request raises)
CheckIn ==
    /\ pc = "checkin"
    /\ IF needs_manual_check_in(provider_config)
       THEN \E reply \in PostReplies :
                /\ Scripted("post", reply)
                /\ reqs' = Append(reqs, PostEntry(reply))
                /\ LET r == execute_check_in(reply)
                   IN IF r.raised
                      THEN /\ check_in_success' = TRUE
                           /\ ret' = EarlyReturn
                           /\ client' = "closed"
                           /\ pc' = "record"
                      ELSE /\ check_in_success' = r.val
                           /\ ret' = ret
                           /\ client' = client
                           /\ pc' = AfterCheckIn(r.val)
       ELSE /\ check_in_success' = TRUE
            /\ pc' = "balance"
            /\ UNCHANGED <<reqs, ret, client>>
    /\ UNCHANGED <<script, call, returned, mainVars, provider_config, user_cookies, all_cookies,
                   user_info, context, worldVars, exc, exit_code, exit_via>>

\* check_in_account, lines 249-250: await asyncio.sleep(1)
Sleep ==
    /\ pc = "sleep"
    /\ reqs' = Append(reqs, [op |-> "sleep", result |-> "done"])
    /\ pc' = "balance"
    /\ UNCHANGED <<script, call, returned, mainVars, provider_config, user_cookies, all_cookies,
                   check_in_success, user_info, ret, client, context, worldVars,
                   exc, exit_code, exit_via>>

\* (mutation) a gateway-automatic check-in counts only with a balance
ReturnValue_AutoNeedsBalance(manual, success, info) ==
    IF manual THEN [success |-> success, user_info |-> info]
    ELSE [success |-> info.success, user_info |-> info]

\* (mutation) the balance outcome is folded into the overall success
ReturnValue_AndBalance(manual, success, info) ==
    IF manual THEN [success |-> success /\ info.success, user_info |-> info]
    ELSE [success |-> TRUE, user_info |-> info]

\* check_in_account, lines 263-267
ReturnValue(manual, success, info) ==
    IF manual THEN [success |-> success, user_info |-> info]
    ELSE [success |-> TRUE, user_info |-> info]

\* check_in_account, lines 254-267 and 272-273
Balance ==
    /\ pc = "balance"
    /\ \E reply \in GetReplies :
        /\ Scripted("get", reply)
        /\ reqs' = Append(reqs, GetEntry(reply))
        /\ user_info' = get_user_info(reply)
    /\ ret' = ReturnValue(needs_manual_check_in(provider_config), check_in_success, user_info')
    /\ client' = "closed"
    /\ pc' = "record"
    /\ UNCHANGED <<script, call, returned, mainVars, provider_config, user_cookies, all_cookies,
                   check_in_success, context, worldVars, exc, exit_code, exit_via>>

\* ------------------------------------------------ main: recording a result
MsgOK == [kind |-> "text", text |-> "OK"]
MsgFailed == [kind |-> "text", text |-> "Failed"]
MsgUnknown == [kind |-> "text", text |-> "Unknown error"]

\* main, lines 335-341, 356-357, 364
ResultItem(name, success, info) ==
    LET base == [name |-> name, success |-> success, quota |-> None, used |-> None,
                 msg |-> IF success THEN MsgOK ELSE MsgFailed]
    IN IF info # None /\ info.success
       THEN [base EXCEPT !.quota = Some(info.quota), !.used = Some(info.used_quota)]
       ELSE IF info # None
       THEN [base EXCEPT !.msg = Get(info, "error", MsgUnknown)]
       ELSE base

\* main, lines 347-348, 360, 362-363
AccountMsg(name, success, info) ==
    LET base == [tag |-> IF success THEN "[SUCCESS]" ELSE "[FAIL]", name |-> name]
    IN IF info # None /\ info.success
       THEN base @@ [display |-> info.display]
       ELSE IF info # None
       THEN base @@ [error |-> Get(info, "error", MsgUnknown)]
       ELSE base

\* main, lines 350-353
RecordBalance(balances, key, info) ==
    IF info # None /\ info.success
    THEN SetBalance(balances, key, info.quota, info.used_quota)
    ELSE balances

\* (mutation) every account that returned is counted
CountSuccess_Every(count, success) == count + 1

\* main, lines 343-344
CountSuccess(count, success) == IF success THEN count + 1 ELSE count

\* main, lines 333-367: check_in_account returned (its frame is gone)
Record ==
    /\ pc = "record"
    /\ LET account_key == i + 1
           account_name == get_display_name(i)
       IN /\ success_count' = CountSuccess(success_count, ret.success)
          /\ current_balances' = RecordBalance(current_balances, account_key, ret.user_info)
          /\ summary_results' =
                Append(summary_results, ResultItem(account_name, ret.success, ret.user_info))
          /\ notification_content' =
                Append(notification_content, AccountMsg(account_name, ret.success, ret.user_info))
    /\ pc' = "loop"
    /\ provider_config' = None
    /\ user_cookies' = None
    /\ all_cookies' = None
    /\ check_in_success' = None
    /\ user_info' = None
    /\ ret' = None
    /\ UNCHANGED <<script, call, returned, last_balance_hash, total_count, i, account, reqs, client,
                   context, worldVars, exc, exit_code, exit_via>>

\* main, lines 371-376
ExceptionMsg(name, e) == [tag |-> "[FAIL]", name |-> name, exception |-> Truncate(e)]
ExceptionItem(name, e) == [name |-> name, success |-> FALSE, msg |-> Truncate(e)]

\* (mutation) the loop body has no handler: the exception leaves main
Except_Propagates ==
    /\ pc = "except"
    /\ pc' = "raised"
    /\ UNCHANGED <<script, call, returned, mainVars, accountVars, worldVars, exc, exit_code, exit_via>>

\* main, lines 369-376: an exception left check_in_account
Except ==
    /\ pc = "except"
    /\ notification_content' = Append(notification_content, ExceptionMsg(get_display_name(i), exc))
    /\ summary_results' = Append(summary_results, ExceptionItem(get_display_name(i), exc))
    /\ exc' = None
    /\ pc' = "loop"
    /\ provider_config' = None
    /\ user_cookies' = None
    /\ all_cookies' = None
    /\ check_in_success' = None
    /\ user_info' = None
    /\ ret' = None
    /\ UNCHANGED <<script, call, returned, last_balance_hash, total_count, i, success_count,
                   current_balances, account, reqs, client, context, worldVars,
                   exit_code, exit_via>>

\* main, line 327: the accounts are exhausted; the loop's account and what
\* was recorded about its requests are of no further use
LoopEnd ==
    /\ pc = "loop"
    /\ i + 1 >= total_count
    /\ account' = None
    /\ reqs' = <<>>
    /\ client' = "none"
    /\ context' = "none"
    /\ pc' = "summary"
    /\ UNCHANGED <<script, call, returned, last_balance_hash, total_count, i, success_count,
                   notification_content, current_balances, summary_results,
                   provider_config, user_cookies, all_cookies, check_in_success,
                   user_info, ret, worldVars, exc, exit_code, exit_via>>

\* ------------------------------------------------ main: after the loop
Dash == [dash |-> TRUE]

\* write_github_summary, lines 286-291: one row of the table
SummaryRow(res) ==
    [name |-> res.name,
     status_icon |-> IF res.success THEN "ok" ELSE "failed",
     quota |-> IF Get(res, "quota", None) # None THEN res.quota ELSE Dash,
     used |-> IF Get(res, "used", None) # None THEN res.used ELSE Dash,
     msg |-> Get(res, "msg", [kind |-> "text", text |-> ""])]

\* write_github_summary: the file after the call.  env is "unset" when
\* GITHUB_STEP_SUMMARY is not set, "fail" when the file cannot be written.
write_github_summary(file, results, env) ==
    IF env = "ok" THEN file \o [k \in 1..Len(results) |-> SummaryRow(results[k])]
    ELSE file

\* main, line 379
WriteSummary ==
    /\ pc = "summary"
    /\ \E env \in {"unset", "ok", "fail"} :
        step_summary' = write_github_summary(step_summary, summary_results, env)
    /\ pc' = "fingerprint"
    /\ UNCHANGED <<script, call, returned, mainVars, accountVars, hash_file, hash_reads, saves, pushes,
                   exc, exit_code, exit_via>>

\* (mutation) the fingerprint is computed also for an empty balance map
CurrentBalanceHash_Always(balances) == generate_balance_hash(balances)

\* main, line 382
CurrentBalanceHash(balances) ==
    IF balances # <<>> THEN generate_balance_hash(balances) ELSE None

\* (mutation) a write of balance_hash.txt that fails ends main
AfterSave_Fatal(outcome) == IF outcome = "written" THEN "notify" ELSE "raised"

\* save_balance_hash, lines 39-43: the exception of a failing write is
\* caught and logged, and main goes on
AfterSave(outcome) == "notify"

\* the call save_balance_hash(balance_hash) of line 384
SaveCall(balance_hash) == [at |-> Len(summary_results), hash |-> balance_hash]

\* main, lines 382-386
Fingerprint ==
    /\ pc = "fingerprint"
    /\ LET current_balance_hash == CurrentBalanceHash(current_balances)
       IN IF current_balance_hash # None
          THEN /\ \E outcome \in {"written", "not_opened", "not_written"} :
                    /\ hash_file' = save_balance_hash(hash_file, current_balance_hash, outcome)
                    /\ pc' = AfterSave(outcome)
               /\ saves' = Append(saves, SaveCall(current_balance_hash))
          ELSE /\ pc' = "notify"
               /\ UNCHANGED <<hash_file, saves>>
    /\ UNCHANGED <<script, call, returned, mainVars, accountVars, step_summary, hash_reads, pushes,
                   exc, exit_code, exit_via>>

\* (mutation) notify only when the fingerprint changed
need_notify_OnChange == last_balance_hash # CurrentBalanceHash(current_balances)

\* main, line 325
need_notify == TRUE

\* the call notify.push_message(...) of line 401
PushCall == [content |-> notification_content,
             stats |-> <<success_count, total_count>>,
             at |-> Len(summary_results)]

\* main, lines 389-403
Notify ==
    /\ pc = "notify"
    /\ IF need_notify /\ notification_content # <<>>
       THEN /\ pushes' = Append(pushes, PushCall)
            /\ \E delivered \in BOOLEAN :
                IF delivered THEN pc' = "exit" /\ exc' = exc
                ELSE pc' = "raised" /\ exc' = NotifyError
       ELSE /\ pushes' = pushes
            /\ pc' = "exit"
            /\ exc' = exc
    /\ UNCHANGED <<script, call, returned, mainVars, accountVars, hash_file, step_summary, hash_reads,
                   saves, exit_code, exit_via>>

\* (mutation) success only when every account succeeded
ExitCode_All(count) == IF count = total_count THEN 0 ELSE 1

\* main, line 405
ExitCode(count) == IF count > 0 THEN 0 ELSE 1

Exit ==
    /\ pc = "exit"
    /\ Exited(ExitCode(success_count), "main")
    /\ UNCHANGED <<script, call, returned, mainVars, accountVars, worldVars, exc>>

\* run_main, lines 415-417
RunMainExcept ==
    /\ pc = "raised"
    /\ Exited(1, "exception")
    /\ UNCHANGED <<script, call, returned, mainVars, accountVars, worldVars, exc>>

\* ------------------------------------------------------------- interrupts
\* KeyboardInterrupt is no Exception, so the handlers of lines 42, 126, 269,
\* 297 and 369 let it pass and it reaches run_main from any line of main and
\* of the functions main calls, also from a line in the middle of one of
\* the steps above.
InterruptPoints == {"start", "loop", "resolve", "parse", "prepare", "checkin", "sleep",
                    "balance", "record", "except", "summary", "fingerprint", "notify", "exit"}

\* the variables a step changes one after the other
Now ==
    [last_balance_hash |-> last_balance_hash, hash_reads |-> hash_reads,
     user_cookies |-> user_cookies, all_cookies |-> all_cookies,
     check_in_success |-> check_in_success, user_info |-> user_info,
     reqs |-> reqs, client |-> client, context |-> context,
     success_count |-> success_count, current_balances |-> current_balances,
     summary_results |-> summary_results, notification_content |-> notification_content,
     hash_file |-> hash_file, saves |-> saves, pushes |-> pushes]

\* Each operator below lists, in the order of the code, what an interrupt
\* can find of one step: the state before the step, then the state after
\* each of its assignments and calls.  `input` is what the world answers.

\* main, lines 302-316: the fingerprint is read before the counters are set
StartedAt(s, readable) ==
    <<s, [s EXCEPT !.last_balance_hash = load_balance_hash(s.hash_file, readable),
                   !.hash_reads = @ + 1]>>

\* check_in_account, lines 216-218
ParsedAt(s) == <<s, [s EXCEPT !.user_cookies = parse_cookies(account.cookies)]>>

\* check_in_account, lines 221-227, and the bootstrap of lines 72-129: the
\* browser context is open, or closed by context.close(); the bootstrap has
\* returned; all_cookies is assigned; the client is built
PreparedAt(s, browser) ==
    LET r == prepare_cookies(provider_config, user_cookies, browser)
        back == [s EXCEPT !.reqs = AfterBootstrap(s.reqs, browser, provider_config, r),
                          !.context = r.context]
        bound == [back EXCEPT !.all_cookies = r.val]
    IN <<s>>
       \o (IF needs_waf_cookies(provider_config) /\ browser.stage # "launch_raise"
           THEN <<[s EXCEPT !.context = "open"]>>
                \o (IF r.context = "closed" THEN <<[s EXCEPT !.context = "closed"]>> ELSE <<>>)
           ELSE <<>>)
       \o (IF r.raised THEN <<back>>
           ELSE <<back, bound>>
                \o (IF ~Falsy(r.val) /\ Scripted("client", TRUE)
                    THEN <<[bound EXCEPT !.client = "open"]>>
                    ELSE <<>>))

\* check_in_account, lines 228-247, and execute_check_in: check_in_success
\* is True; the POST is answered
CheckedInAt(s, reply) ==
    LET ready == [s EXCEPT !.check_in_success = TRUE]
    IN <<s, ready>>
       \o (IF needs_manual_check_in(provider_config)
           THEN <<[ready EXCEPT !.reqs = Append(s.reqs, PostEntry(reply))]>>
           ELSE <<>>)

\* check_in_account, lines 254-267, and get_user_info: the GET is answered;
\* user_info is assigned
BalancedAt(s, reply) ==
    LET answered == [s EXCEPT !.reqs = Append(s.reqs, GetEntry(reply))]
    IN <<s, answered, [answered EXCEPT !.user_info = get_user_info(reply)]>>

\* main, lines 335-366: the count, the balance, the row of the summary
RecordedAt(s) ==
    LET counted == [s EXCEPT !.success_count = CountSuccess(@, ret.success)]
        kept == [counted EXCEPT !.current_balances = RecordBalance(@, i + 1, ret.user_info)]
    IN <<s, counted, kept,
         [kept EXCEPT !.summary_results =
                Append(@, ResultItem(get_display_name(i), ret.success, ret.user_info))]>>

\* main, lines 370-371: the line of the notification
ExceptedAt(s) ==
    <<s, [s EXCEPT !.notification_content = Append(@, ExceptionMsg(get_display_name(i), exc))]>>

\* main, lines 382-384, and save_balance_hash, lines 39-40: the call is
\* made; the file is opened for writing and empty
FingerprintedAt(s) ==
    LET current_balance_hash == CurrentBalanceHash(current_balances)
        called == [s EXCEPT !.saves = Append(@, SaveCall(current_balance_hash))]
    IN IF current_balance_hash # None
       THEN <<s, called, [called EXCEPT !.hash_file = EmptyText]>>
       ELSE <<s>>

\* main, lines 389-401: notify.push_message is called and has not returned
NotifiedAt(s) ==
    IF need_notify /\ notification_content # <<>>
    THEN <<s, [s EXCEPT !.pushes = Append(@, PushCall)]>>
    ELSE <<s>>

\* the answers of the world the step that starts at `at` can get
InputsAt(at) ==
    IF at = "start" THEN BOOLEAN
    ELSE IF at = "prepare"
    THEN {b \in IF needs_waf_cookies(provider_config) THEN BrowserChoices ELSE {NoBrowser} :
            Scripted("browser", b)}
    ELSE IF at = "checkin" THEN {r \in PostReplies : Scripted("post", r)}
    ELSE IF at = "balance" THEN {r \in GetReplies : Scripted("get", r)}
    ELSE {None}

\* what an interrupt can find of the step that starts at `at`
Interrupted(at, input) ==
    IF at = "start" THEN StartedAt(Now, input)
    ELSE IF at = "parse" THEN ParsedAt(Now)
    ELSE IF at = "prepare" THEN PreparedAt(Now, input)
    ELSE IF at = "checkin" THEN CheckedInAt(Now, input)
    ELSE IF at = "balance" THEN BalancedAt(Now, input)
    ELSE IF at = "record" THEN RecordedAt(Now)
    ELSE IF at = "except" THEN ExceptedAt(Now)
    ELSE IF at = "fingerprint" THEN FingerprintedAt(Now)
    ELSE IF at = "notify" THEN NotifiedAt(Now)
    ELSE <<Now>>

\* The interrupt unwinds the stack: the finally of lines 272-273 closes an
\* open client, unless the interrupt arrived outside the try (line 225) or
\* a further interrupt stops the unwinding.  No handler of the bootstrap
\* catches an interrupt (line 126 is `except Exception`), so no
\* context.close() is called for an open context.
Unwound(resource) == IF resource = "open" THEN {"closed", "open"} ELSE {resource}

\* a process ended by the signal has no exit code of its own
Killed == [signal |-> "SIGINT"]

\* run_main, lines 410-417.  The ways an interrupted run ends (via):
\*   "interrupt"  a KeyboardInterrupt raised under asyncio.run(main()) is
\*       caught at line 412: the handler prints and calls sys.exit(1).
\*       This includes the interrupt that arrives when an exception has
\*       left main and asyncio.run is still closing its loop (pc
\*       "raised"): line 411 is still at work, so line 412 catches the
\*       interrupt and the handler of line 415 never runs.
\*   "signal"  a KeyboardInterrupt is caught by nothing when it is raised
\*       in run_main before the try is entered (line 410), while the
\*       SystemExit of sys.exit (lines 312, 405) passes the except clauses
\*       of lines 412 and 415, or while a handler of run_main is at work
\*       (lines 413-414 after a caught interrupt, 416-417 after an
\*       exception): the signal ends the process.  One of these follows
\*       every point of the run.
\*   "uncaught CancelledError"  the signal arrives when asyncio.run has
\*       armed its own handler and not yet started main: main is cancelled
\*       before its first line and asyncio.run raises CancelledError, which
\*       is no Exception and no KeyboardInterrupt; neither except clause
\*       of run_main catches it and the interpreter ends with exit code 1.
Interrupt ==
    /\ pc \in InterruptPoints \cup {"raised"}
    /\ \E input \in InputsAt(pc) :
       \E found \in {Interrupted(pc, input)} :
       \E k \in 1..Len(found),
          via \in {"interrupt", "signal"}
                  \cup (IF pc = "start" THEN {"uncaught CancelledError"} ELSE {}) :
       \E u \in {found[k]} :
        /\ last_balance_hash' = u.last_balance_hash
        /\ hash_reads' = u.hash_reads
        /\ user_cookies' = u.user_cookies
        /\ all_cookies' = u.all_cookies
        /\ check_in_success' = u.check_in_success
        /\ user_info' = u.user_info
        /\ reqs' = u.reqs
        /\ client' \in Unwound(u.client)
        /\ context' = u.context
        /\ success_count' = u.success_count
        /\ current_balances' = u.current_balances
        /\ summary_results' = u.summary_results
        /\ notification_content' = u.notification_content
        /\ hash_file' = u.hash_file
        /\ saves' = u.saves
        /\ pushes' = u.pushes
        /\ pc' = "exited"
        /\ via = "uncaught CancelledError" => k = 1
        /\ exit_code' = IF via = "signal" THEN Killed ELSE Some(1)
        /\ exit_via' = via
    /\ UNCHANGED <<script, call, returned, total_count, i, account, provider_config, ret,
                   step_summary, exc>>

Next ==
    \/ StartFail
    \/ StartNoAccounts
    \/ StartLoop
    \/ LoopNext
    \/ Resolve
    \/ Parse
    \/ Prepare
    \/ CheckIn
    \/ Sleep
    \/ Balance
    \/ Record
    \/ Except
    \/ LoopEnd
    \/ WriteSummary
    \/ Fingerprint
    \/ Notify
    \/ Exit
    \/ RunMainExcept
    \/ Interrupt

Spec == Init /\ [][Next]_vars

\* ------------------------------------------------- the end-to-end scenario
\* Three accounts with valid cookies: for A the check-in and the balance
\* request succeed (quota 1000000, used 500000); for B the browser session
\* holds none of the required cookies; for C the check-in request is answered
\* with HTTP 500.
ValidCookies == {c \in CookiePayloads : ~Falsy(parse_cookies(c))}
GoodBrowser == {b \in BrowserChoices : b.stage = "cookies" /\ Len(b.cookies) = 2 /\ b.close = "ok"}
                 \cup {NoBrowser}

Scenario ==
    <<[account |-> {a \in AccountChoices : a.provider \in {"anyrouter", "plain"}
                                            /\ a.cookies \in ValidCookies},
       browser |-> GoodBrowser,
       client |-> {TRUE},
       post |-> {r \in PostReplies : ~execute_check_in(r).raised /\ execute_check_in(r).val},
       get |-> {r \in GetReplies : get_user_info(r) =
                    [success |-> TRUE, quota |-> Float(FALSE, 200),
                     used_quota |-> Float(FALSE, 100),
                     display |-> [quota |-> Float(FALSE, 200), used |-> Float(FALSE, 100)]]}],
      [account |-> {a \in AccountChoices : a.provider \in {"anyrouter", "wafauto"}
                                            /\ a.cookies \in ValidCookies},
       browser |-> {b \in BrowserChoices : b.stage = "cookies" /\ b.cookies = <<>>},
       client |-> {TRUE},
       post |-> {},
       get |-> {}],
      [account |-> {a \in AccountChoices : a.provider \in {"anyrouter", "plain"}
                                            /\ a.cookies \in ValidCookies},
       browser |-> GoodBrowser,
       client |-> {TRUE},
       post |-> {r \in PostReplies : r.kind = "resp" /\ r.status = 500},
       get |-> GetReplies]>>

InitE2E ==
    /\ script = Scenario
    /\ InitRun

NextE2E ==
    \/ StartLoop
    \/ LoopNext
    \/ Resolve
    \/ Parse
    \/ Prepare
    \/ CheckIn
    \/ Sleep
    \/ Balance
    \/ Record
    \/ LoopEnd
    \/ WriteSummary
    \/ Fingerprint
    \/ Notify
    \/ Exit
    \/ RunMainExcept
    \/ Interrupt

SpecE2E == InitE2E /\ [][NextE2E]_vars

\* ------------------------------------------- functions called on their own
\* The program is not running: only `call` and `returned` are in use, and pc
\* is "call" before the function is applied and "done" after.
programVars == <<script, mainVars, accountVars, worldVars, exc, exit_code, exit_via>>

Standby ==
    /\ script = <<>>
    /\ hash_file = NoFile
    /\ step_summary = <<>>
    /\ last_balance_hash = None
    /\ total_count = 0
    /\ i = -1
    /\ success_count = 0
    /\ notification_content = <<>>
    /\ current_balances = <<>>
    /\ summary_results = <<>>
    /\ account = None
    /\ provider_config = None
    /\ user_cookies = None
    /\ all_cookies = None
    /\ check_in_success = None
    /\ user_info = None
    /\ ret = None
    /\ exc = None
    /\ reqs = <<>>
    /\ client = "none"
    /\ context = "none"
    /\ hash_reads = 0
    /\ saves = <<>>
    /\ pushes = <<>>
    /\ exit_code = None
    /\ exit_via = "running"
    /\ pc = "call"
    /\ returned = None

\* ---- generate_balance_hash on two balance mappings
\* keys account_1, account_2, account_10: as strings, account_10 < account_2
BalanceKeys == {1, 2, 10}
\* quotas 0.0, -0.0 and 2.0; used amounts 0.0 and 1.0
HashQuotas == {Float(FALSE, 0), Float(TRUE, 0), Float(FALSE, 200)}
HashUsed == {Float(FALSE, 0), Float(FALSE, 100)}

\* the dicts of at most MaxBalances entries with used amounts of the set
\* used, in every insertion order
BalanceMaps(used) ==
    UNION {{m \in [1..n -> [key : BalanceKeys, quota : HashQuotas, used : used]] :
                \A j, k \in 1..n : j # k => m[j].key # m[k].key} : n \in 0..MaxBalances}

InitHash ==
    /\ Standby
    /\ call \in {[fn |-> "generate_balance_hash", a |-> a, b |-> b] :
                    a \in BalanceMaps({Float(FALSE, 0)}), b \in BalanceMaps(HashUsed)}

CallHash ==
    /\ pc = "call"
    /\ call.fn = "generate_balance_hash"
    /\ returned' = [a |-> generate_balance_hash(call.a), b |-> generate_balance_hash(call.b)]
    /\ pc' = "done"
    /\ UNCHANGED <<call, programVars>>

NextHash == CallHash

SpecHash == InitHash /\ [][NextHash]_vars

\* ---- execute_check_in on one reply to the POST
\* the dicts with the key name absent or bound to one of vals
OptField(name, vals) == {EmptyDict} \cup {name :> v : v \in vals}

\* JSON objects with any of ret, code and success
CheckInObjects ==
    {Merge(Merge(a, b), c) : a \in OptField("ret", {0, 1}),
                             b \in OptField("code", {0, 1}),
                             c \in OptField("success", {TRUE, FALSE})}

CheckInTexts ==
    {<<"S", "u", "c", "c", "e", "s", "s">>,
     <<"S", "U", "C", "C", "E", "S", "S", "!">>,
     <<"o", "k", " ", "s", "u", "c", "C", "E", "s", "s">>,
     <<"s", "u", "c", "c", "e", "s">>,
     <<"f", "a", "i", "l">>,
     <<>>}

CheckInBodies ==
    {Obj(o) : o \in CheckInObjects}
    \cup {[json |-> "other", type |-> t] : t \in {"list", "NoneType", "str"}}
    \cup {Invalid(t, 41) : t \in CheckInTexts}

CheckInReplies == {Raise(NetError)} \cup {Resp(st, b) : st \in {200, 204, 500}, b \in CheckInBodies}

InitCheckIn ==
    /\ Standby
    /\ call \in {[fn |-> "execute_check_in", reply |-> r] : r \in CheckInReplies}

CallCheckIn ==
    /\ pc = "call"
    /\ call.fn = "execute_check_in"
    /\ returned' = execute_check_in(call.reply)
    /\ pc' = "done"
    /\ UNCHANGED <<call, programVars>>

NextCheckIn == CallCheckIn

SpecCheckIn == InitCheckIn /\ [][NextCheckIn]_vars

\* ---- get_user_info on one reply to the GET, next to the runs of the program
LongError == [id |-> "ConnectError", len |-> 80]

\* the data of the body: absent, null, a string, an array, or an object
\* with any of the amounts; an amount is a number, true, null, a string or
\* an array
UserData ==
    {Merge(a, b) :
        a \in OptField("quota", {Num(n) : n \in {0, -1, 1000000, 1337500}}
                                 \cup {[bool |-> TRUE], None, [json |-> "other", type |-> "str"]}),
        b \in OptField("used_quota", {Num(n) : n \in {500000, 2500}}
                                      \cup {None, [json |-> "other", type |-> "list"]})}

UserInfoObjects ==
    {Merge(a, b) :
        a \in OptField("success", {TRUE, FALSE}),
        b \in {EmptyDict, "data" :> None}
              \cup {"data" :> [json |-> "other", type |-> t] : t \in {"str", "list"}}
              \cup {"data" :> d : d \in UserData}}

UserInfoBodies ==
    {Obj(o) : o \in UserInfoObjects}
    \cup {[json |-> "other", type |-> t] : t \in {"list", "NoneType", "str", "int"}}
    \cup {Invalid(<<"<", "h", "t", "m", "l", ">">>, 41),
          Invalid(<<"{", "a", ":", "1", "}">>, 75),
          Invalid(<<"{", "\"", "a", "\"", ":", "1">>, 49),
          Invalid(<<"\"", "a", "b", "c">>, 57)}

UserInfoReplies ==
    {Raise(NetError), Raise(LongError)}
    \cup {Resp(st, b) : st \in {200, 401, 500}, b \in UserInfoBodies}

InitUserInfo ==
    /\ Standby
    /\ call \in {[fn |-> "get_user_info", reply |-> r] : r \in UserInfoReplies}

CallUserInfo ==
    /\ pc = "call"
    /\ call.fn = "get_user_info"
    /\ returned' = get_user_info(call.reply)
    /\ pc' = "done"
    /\ UNCHANGED <<call, programVars>>

InitBalance == Init \/ InitUserInfo

NextBalance == Next \/ CallUserInfo

SpecBalance == InitBalance /\ [][NextBalance]_vars

\* ---- prepare_cookies on one provider profile, cookie set and browser session
\* the parsed cookies of a user: not empty (line 217), over the keys w and s
UserCookieSets ==
    {Merge(a, b) : a \in OptField(W1, {<<"u">>, <<"1">>}),
                   b \in OptField(<<"s">>, {<<"u">>, <<"1">>})} \ {EmptyDict}

ProviderProfiles == {Providers[n] : n \in DOMAIN Providers}

InitMerge ==
    /\ Standby
    /\ call \in {[fn |-> "prepare_cookies", provider_config |-> p, user_cookies |-> u,
                   browser |-> b] :
                    p \in ProviderProfiles, u \in UserCookieSets,
                    b \in BrowserChoices \cup {NoBrowser}}
    /\ call.browser = NoBrowser <=> ~needs_waf_cookies(call.provider_config)

CallMerge ==
    /\ pc = "call"
    /\ call.fn = "prepare_cookies"
    /\ returned' = prepare_cookies(call.provider_config, call.user_cookies, call.browser)
    /\ pc' = "done"
    /\ UNCHANGED <<call, programVars>>

NextMerge == CallMerge

SpecMerge == InitMerge /\ [][NextMerge]_vars

\* ---- parse_cookies on one cookies value
CookieChars == {"a", "b", "=", ";", " ", "U+3000", "U+00E9"}

\* "a=1; b=2"
ExampleCookies == <<"a", "=", "1", ";", " ", "b", "=", "2">>

CookieStrings ==
    UNION {[1..n -> CookieChars] : n \in 0..MaxCookieLen} \cup {ExampleCookies}

CookieDicts == {EmptyDict, <<"a">> :> <<"1">>, (<<"a">> :> <<" ", "1">>) @@ (<<"b", " ">> :> <<>>)}

CookiesData ==
    {[kind |-> "str", val |-> t] : t \in CookieStrings}
    \cup {[kind |-> "dict", val |-> d] : d \in CookieDicts}
    \cup {[kind |-> "none", val |-> None]}

InitParse ==
    /\ Standby
    /\ call \in {[fn |-> "parse_cookies", cookies_data |-> c] : c \in CookiesData}

CallParse ==
    /\ pc = "call"
    /\ call.fn = "parse_cookies"
    /\ returned' = parse_cookies(call.cookies_data)
    /\ pc' = "done"
    /\ UNCHANGED <<call, programVars>>

NextParse == CallParse

SpecParse == InitParse /\ [][NextParse]_vars

TypeOK ==
    /\ pc \in {"start", "loop", "resolve", "parse", "prepare", "checkin", "sleep",
               "balance", "record", "except", "summary", "fingerprint", "notify",
               "exit", "raised", "exited", "call", "done"}
    /\ i \in -1..(total_count - 1)
    /\ total_count \in 0..(IF script = <<>> THEN MaxAccounts ELSE Len(script))
    /\ success_count \in 0..total_count
    /\ Len(summary_results) <= total_count
    /\ Len(notification_content) <= total_count

\* ==================================================================== claims
\* the run is past the account loop (or ended there by an exception or by
\* sys.exit at the end of main)
AfterLoop ==
    \/ pc \in {"summary", "fingerprint", "notify", "exit"}
    \/ pc = "raised" /\ total_count > 0
    \/ pc = "exited" /\ exit_via = "main"
    \/ pc = "exited" /\ exit_via = "exception" /\ total_count > 0

\* entry k of the report was written by the exception handler of the loop
IsExceptionEntry(k) == "exception" \in DOMAIN notification_content[k]

\* the run was cut short by an interrupt
Cut == pc = "exited" /\ exit_via \in {"interrupt", "signal", "uncaught CancelledError"}

\* C1: an exception raised while an account is processed is caught in the
\* loop: the account gets one entry marked failed in summary_results and in
\* notification_content, the loop goes on with the accounts after it, and
\* when the loop has ended both lists hold exactly one entry per configured
\* account, in configuration order.  (Only an interrupt, which is no
\* exception of the loop body, leaves one list an entry ahead of the other.)
C1_FaultIsolation ==
    /\ pc = "loop" =>
        /\ Len(summary_results) = i + 1
        /\ Len(notification_content) = i + 1
    /\ AfterLoop =>
        /\ Len(summary_results) = total_count
        /\ Len(notification_content) = total_count
    /\ ~Cut => Len(summary_results) = Len(notification_content)
    /\ \A k \in 1..Len(summary_results) : summary_results[k].name = get_display_name(k - 1)
    /\ \A k \in 1..Len(notification_content) :
        /\ notification_content[k].name = get_display_name(k - 1)
        /\ (IsExceptionEntry(k) /\ k <= Len(summary_results)) =>
            /\ notification_content[k].tag = "[FAIL]"
            /\ ~summary_results[k].success

\* C1 witness: the first of two accounts raised, the loop ended, and the
\* second account was processed and succeeded
C1_Witness ==
    /\ pc = "summary"
    /\ total_count = 2
    /\ Len(summary_results) = 2
    /\ IsExceptionEntry(1)
    /\ summary_results[2].success

\* C2 (as claimed): every run ends with an exit code: 1 after a fatal error
\* (no accounts, interrupt, exception reaching run_main); otherwise 0 when
\* at least one account's orchestrator result was a success and 1 when none
\* was.
C2_AsClaimed ==
    pc = "exited" =>
        IF exit_via = "main"
        THEN exit_code = Some(IF \E k \in 1..Len(summary_results) : summary_results[k].success
                              THEN 0 ELSE 1)
        ELSE exit_code = Some(1)

\* C2 (amended): a run ends in one of three ways.  When main reaches its
\* last line the exit code is 0 if at least one account's orchestrator
\* result was a success and 1 if none was.  When sys.exit(1) is reached
\* for no accounts, for a KeyboardInterrupt that line 412 caught or for an
\* exception that line 415 caught, the exit code is 1, and so it is when
\* an interrupt cancels main before its first line and the CancelledError
\* of asyncio.run is caught by nothing.  When a KeyboardInterrupt is
\* caught by nothing (it arrives in run_main before the try is entered,
\* while the SystemExit of sys.exit passes the except clauses, or while a
\* handler of run_main is at work) the process is ended by the signal and
\* has no exit code of 0 or 1 at all; this can follow any point of the
\* run, whatever the accounts' outcomes.
C2_ExitCode ==
    /\ pc = "exited" =>
        /\ exit_via \in {"main", "no_accounts", "interrupt", "exception", "signal",
                         "uncaught CancelledError"}
        /\ exit_code =
              IF exit_via = "main"
              THEN Some(IF \E k \in 1..Len(summary_results) : summary_results[k].success
                        THEN 0 ELSE 1)
              ELSE IF exit_via = "signal" THEN Killed
              ELSE Some(1)
    /\ exit_code = Killed <=> exit_via = "signal"

\* C2 witness: a run that ends with exit code 0 although one of its accounts
\* failed
C2_Witness ==
    /\ pc = "exited"
    /\ exit_via = "main"
    /\ exit_code = Some(0)
    /\ \E k \in 1..Len(summary_results) : ~summary_results[k].success

\* C3: notify.push_message is called at most once, never before the last
\* account was processed, and exactly once in every run that got past the
\* notification step, whatever the fingerprints are.
C3_NotifyOnce ==
    /\ Len(pushes) <= 1
    /\ \A k \in 1..Len(pushes) :
        /\ pushes[k].at = total_count
        /\ Len(pushes[k].content) = total_count
    /\ pc \in {"loop", "resolve", "parse", "prepare", "checkin", "sleep", "balance",
               "record", "except", "summary", "fingerprint", "notify"} => pushes = <<>>
    /\ (AfterLoop /\ pc \notin {"summary", "fingerprint", "notify"}) => Len(pushes) = 1

\* C3 witness: the notification was sent in a run whose fingerprint equals the
\* one read at the start
C3_Witness ==
    /\ pc = "exit"
    /\ Len(pushes) = 1
    /\ last_balance_hash # None
    /\ last_balance_hash = CurrentBalanceHash(current_balances)

\* ---- requests of the loop's account
Issued(op) == \E k \in 1..Len(reqs) : reqs[k].op = op
Count(op) == Cardinality({k \in 1..Len(reqs) : reqs[k].op = op})
Entry(op) == reqs[CHOOSE k \in 1..Len(reqs) : reqs[k].op = op]

\* check_in_account is at work on the loop's account, or has just returned
InAccount == pc \in {"resolve", "parse", "prepare", "checkin", "sleep", "balance", "record"}

\* C4 (as claimed): once the check-in POST was issued, a check-in that did
\* not succeed, for whatever reason, is followed by the balance GET, and
\* check_in_account returns (False, balance outcome).
C4_CheckInFailureKeepsBalance ==
    (pc = "record" /\ Issued("post") /\ Entry("post").result # "True") =>
        /\ Issued("get")
        /\ ret.success = FALSE
        /\ ret.user_info # None

\* C5: for a provider whose check-in is gateway-automatic, no check-in POST
\* is ever issued, and an account that got past the session bootstrap
\* returns after exactly one balance GET with overall success True.
C5_AutoCheckIn ==
    (InAccount /\ provider_config # None /\ ~needs_manual_check_in(provider_config)) =>
        /\ ~Issued("post")
        /\ (pc = "record" /\ client # "none") =>
            /\ Count("get") = 1
            /\ ret.success = TRUE

\* C5 witness: a gateway-automatic account returned success although its
\* balance request failed
C5_Witness ==
    /\ pc = "record"
    /\ provider_config # None
    /\ ~needs_manual_check_in(provider_config)
    /\ Count("get") = 1
    /\ ret.user_info # None
    /\ ~ret.user_info.success
    /\ ret.success

\* the loop's account is one that check_in_account gives up early: unknown
\* provider, empty cookie mapping, or a bootstrap that read the session's
\* cookies and found a required name missing
EarlyCase ==
    /\ account # None
    /\ \/ get_provider(account.provider) = None
       \/ Falsy(parse_cookies(account.cookies))
       \/ /\ Issued("bootstrap")
          /\ Entry("bootstrap").stage = "cookies"
          /\ Entry("bootstrap").got < Len(get_provider(account.provider).waf_cookie_names)

\* C6: in each early-exit case check_in_account issues no check-in and no
\* balance request and returns (False, None).
C6_EarlyExit ==
    EarlyCase =>
        /\ ~Issued("post")
        /\ ~Issued("get")
        /\ pc \notin {"checkin", "sleep", "balance", "except"}
        /\ pc = "record" => ret = EarlyReturn

\* C6 witness: the bootstrap delivered one of the two required cookies and
\* check_in_account returned (False, None)
C6_Witness ==
    /\ pc = "record"
    /\ Issued("bootstrap")
    /\ Entry("bootstrap").stage = "cookies"
    /\ Entry("bootstrap").got = 1
    /\ ret = EarlyReturn

\* C7: when the balance request was made, check_in_account returns the
\* balance outcome together with a success flag that is the outcome of the
\* check-in request for an explicit check-in and True for an automatic one.
C7_ReturnPair ==
    (pc = "record" /\ Issued("get")) =>
        /\ ret.user_info # None
        /\ ret.user_info.success = (Entry("get").result = "True")
        /\ ret.success = IF needs_manual_check_in(provider_config)
                         THEN Issued("post") /\ Entry("post").result = "True"
                         ELSE TRUE

\* C7 witness: an explicit check-in succeeded, the balance request failed,
\* and the overall flag is True
C7_Witness ==
    /\ pc = "record"
    /\ Issued("post")
    /\ Entry("post").result = "True"
    /\ Issued("get")
    /\ Entry("get").result = "False"
    /\ ret.success

\* an error text, as opposed to the fixed words OK and Failed
IsErrorText(msg) == msg \notin {MsgOK, MsgFailed, MsgUnknown, [kind |-> "text", text |-> ""]}

\* C8 (as claimed): every account that the report marks failed has an error
\* text in its row of the summary table and an error note in its entry of the
\* notification.
C8_FailureHasErrorNote ==
    \A k \in 1..Len(summary_results) :
        ~summary_results[k].success =>
            /\ IsErrorText(SummaryRow(summary_results[k]).msg)
            /\ k <= Len(notification_content) =>
                \/ "error" \in DOMAIN notification_content[k]
                \/ "exception" \in DOMAIN notification_content[k]

\* the balances that were successfully retrieved, as the report shows them
RetrievedKeys == {k \in 1..Len(summary_results) : Get(summary_results[k], "quota", None) # None}

\* what C10 says in all its readings: the fingerprint is read once, before the
\* loop; nothing is saved while accounts are processed; the balance map holds
\* exactly the retrieved balances
C10_Common ==
    /\ hash_reads <= 1
    /\ total_count > 0 => hash_reads = 1
    /\ ~Cut => (hash_reads = 1 => total_count > 0)
    /\ Len(saves) <= 1
    /\ (InAccount \/ pc \in {"loop", "except", "summary", "fingerprint"}) => saves = <<>>
    /\ saves = <<>> => hash_file \in {NoFile, EmptyText} \cup OldFingerprints
    /\ (~Cut /\ Len(current_balances) <= Len(summary_results)) =>
        /\ {current_balances[k].key : k \in 1..Len(current_balances)} = RetrievedKeys
        /\ \A k \in 1..Len(current_balances) :
            summary_results[current_balances[k].key].quota = Some(current_balances[k].quota)
    /\ \A k \in 1..Len(saves) :
        /\ saves[k].at = total_count
        /\ saves[k].hash = generate_balance_hash(current_balances)
        /\ hash_file \in {NoFile, EmptyText, saves[k].hash} \cup OldFingerprints

\* the fingerprint step of main is behind
PastFingerprint == AfterLoop /\ pc \notin {"summary", "fingerprint"}

\* C10 (as claimed): whatever number of balances was retrieved, the
\* fingerprint is saved exactly once at the end of the run.
C10_AsClaimed ==
    /\ C10_Common
    /\ PastFingerprint => Len(saves) = 1

\* C10 (amended): the fingerprint is read once at the start; after the last
\* account it is computed over the retrieved balances and save_balance_hash
\* is called exactly once if at least one balance was retrieved, and not at
\* all if none was; nothing is saved while accounts are processed.
C10_FingerprintOnce ==
    /\ C10_Common
    /\ PastFingerprint => Len(saves) = (IF current_balances # <<>> THEN 1 ELSE 0)

\* C10 witness: a run with a retrieved and an unretrieved balance has saved
\* the fingerprint of the retrieved one and the file holds it
C10_Witness ==
    /\ pc = "exit"
    /\ Len(saves) = 1
    /\ Len(current_balances) >= 1
    /\ Len(current_balances) < total_count
    /\ hash_file = saves[1].hash
    /\ last_balance_hash # saves[1].hash

\* C9 (as claimed): in the scenario of SpecE2E, a run that reaches the end of
\* main reports A as a success with balance 2.0 and used amount 1.0, B as a
\* failure with an error note, C as a failure with an HTTP-status error note,
\* exits with code 0 and has sent one notification holding the three entries.
C9_EndToEnd ==
    (script = Scenario /\ pc = "exited" /\ exit_via = "main") =>
        /\ Len(summary_results) = 3
        /\ summary_results[1].success
        /\ summary_results[1].quota = Some(Float(FALSE, 200))
        /\ summary_results[1].used = Some(Float(FALSE, 100))
        /\ notification_content[1].tag = "[SUCCESS]"
        /\ "display" \in DOMAIN notification_content[1]
        /\ ~summary_results[2].success
        /\ IsErrorText(SummaryRow(summary_results[2]).msg)
        /\ "error" \in DOMAIN notification_content[2]
        /\ ~summary_results[3].success
        /\ SummaryRow(summary_results[3]).msg \in {HttpError(500)}
        /\ "error" \in DOMAIN notification_content[3]
        /\ exit_code = Some(0)
        /\ Len(pushes) = 1
        /\ Len(pushes[1].content) = 3

\* ---- the fingerprint
KeysOf(m) == {m[k].key : k \in 1..Len(m)}
QuotaOf(m, key) == m[CHOOSE k \in 1..Len(m) : m[k].key = key].quota

\* x == y for two floats: -0.0 == 0.0
NumEq(x, y) == x.hundredths = y.hundredths /\ (x.neg = y.neg \/ x.hundredths = 0)

HashDone == pc = "done" /\ call.fn = "generate_balance_hash"

\* C11 (as claimed): two balance mappings with the same keys and equal
\* quotas per key get the same fingerprint, whatever their insertion order
\* and their used amounts, and two mappings with the same keys whose quotas
\* are unequal for exactly one key get different fingerprints.
C11_AsClaimed ==
    (HashDone /\ KeysOf(call.a) = KeysOf(call.b)) =>
        LET unequal == {key \in KeysOf(call.a) :
                            ~NumEq(QuotaOf(call.a, key), QuotaOf(call.b, key))}
        IN /\ unequal = {} => returned.a = returned.b
           /\ Cardinality(unequal) = 1 => returned.a # returned.b

\* C11 (amended): generate_balance_hash depends only on the keys and on the
\* quota of each key as it is printed, sign included: two balance mappings
\* with the same keys and the same printed quota per key get the same
\* fingerprint, whatever their insertion order and their used amounts, and
\* two mappings with the same keys whose printed quotas differ for exactly
\* one key get different fingerprints, also when the two quotas are 0.0 and
\* -0.0.
C11_FingerprintOfQuotas ==
    (HashDone /\ KeysOf(call.a) = KeysOf(call.b)) =>
        LET unlike == {key \in KeysOf(call.a) : QuotaOf(call.a, key) # QuotaOf(call.b, key)}
        IN /\ unlike = {} => returned.a = returned.b
           /\ Cardinality(unlike) = 1 => returned.a # returned.b

\* C11 witness: account_10 and account_2 inserted in opposite orders and
\* with different used amounts, the same quotas: one fingerprint
C11_Witness ==
    /\ HashDone
    /\ Len(call.a) = 2 /\ Len(call.b) = 2
    /\ call.a[1].key = 10 /\ call.a[2].key = 2
    /\ call.b[1].key = 2 /\ call.b[2].key = 10
    /\ call.a[1].used # call.b[2].used
    /\ QuotaOf(call.a, 2) = QuotaOf(call.b, 2)
    /\ QuotaOf(call.a, 10) = QuotaOf(call.b, 10)
    /\ returned.a = returned.b
    /\ returned.a.digest[1][1] = 10

\* ---- resources of an account
\* C12 (as claimed): when check_in_account has returned or raised, and so
\* when the next account starts, the account's HTTP client is closed and
\* its browser context was closed by context.close(), whatever raised on
\* the way (page creation, navigation, reading the cookies, context.close,
\* the check-in request, the balance request).
C12_ReleasedBeforeNext ==
    pc \in {"record", "except", "loop"} =>
        /\ client \in {"none", "closed"}
        /\ context \in {"none", "closed"}

\* ---- order of the requests
\* position in reqs of the request op
Pos(op) == CHOOSE k \in 1..Len(reqs) : reqs[k].op = op

\* C13: the accounts are processed one after another and nothing is tried
\* twice: for the loop's account there is at most one bootstrap, one
\* check-in POST and one balance GET; a request is issued only from inside
\* check_in_account for the current account; and the loop moves to account
\* i+1 only from the loop head, when check_in_account has returned or raised
\* for every account up to i and that outcome has been recorded.
C13_SequentialNoRetry ==
    /\ [](Count("bootstrap") <= 1 /\ Count("post") <= 1 /\ Count("get") <= 1)
    /\ [][ /\ (reqs' # reqs /\ reqs' # <<>>) =>
                /\ i' = i
                /\ pc \in {"prepare", "checkin", "sleep", "balance"}
                /\ reqs' = Append(reqs, reqs'[Len(reqs')])
           /\ i' # i =>
                /\ i' = i + 1
                /\ pc = "loop"
                /\ ret = None /\ exc = None
                /\ Len(summary_results) = i + 1
                /\ reqs' = <<>> ]_vars

\* C13 witness: the second account has issued its bootstrap, its POST and its
\* GET, once each, after the first account was recorded
C13_Witness ==
    /\ pc = "record"
    /\ i = 1
    /\ Len(summary_results) = 1
    /\ Count("bootstrap") = 1 /\ Count("post") = 1 /\ Count("get") = 1

\* C16: for one account the balance GET is not issued before the check-in
\* POST has completed; when the explicit check-in succeeded the pause lies
\* between the check-in response and the balance request; after a failed
\* check-in, or when no explicit check-in is made, the balance request
\* follows without a pause.
C16_PauseBeforeBalance ==
    /\ Issued("post") /\ Issued("get") =>
        /\ Pos("post") < Pos("get")
        /\ Entry("post").result \in {"True", "False"}
    /\ Issued("sleep") =>
        /\ Issued("post")
        /\ Entry("post").result = "True"
        /\ Pos("post") < Pos("sleep")
        /\ Issued("get") => Pos("sleep") < Pos("get")
    /\ Issued("get") =>
        (Issued("sleep") <=> (Issued("post") /\ Entry("post").result = "True"))

\* C16 witness: bootstrap, successful POST, pause, GET, in this order
C16_Witness ==
    /\ pc = "record"
    /\ Len(reqs) = 4
    /\ reqs[2].op = "post" /\ reqs[2].result = "True"
    /\ reqs[3].op = "sleep"
    /\ reqs[4].op = "get"

\* ---- classification of the check-in response
\* c is the letter l in lower or upper case
SameLetter(c, l) == c \in [c |-> {"c", "C"}, e |-> {"e", "E"}, s |-> {"s", "S"}, u |-> {"u", "U"}][l]

\* text holds the word "success", in any mix of cases
HoldsSuccess(text) ==
    \E k \in 0..(Len(text) - 7) : \A j \in 1..7 : SameLetter(text[k + j], SuccessWord[j])

\* the responses the claim classifies as a successful check-in
ClaimedSuccess(reply) ==
    /\ reply.status = 200
    /\ IF reply.body.json = "obj"
       THEN LET o == reply.body.obj
            IN \/ "ret" \in DOMAIN o /\ o["ret"] = 1
               \/ "code" \in DOMAIN o /\ o["code"] = 0
               \/ "success" \in DOMAIN o /\ o["success"] = TRUE
       ELSE IF reply.body.json = "invalid"
       THEN HoldsSuccess(reply.body.text)
       ELSE FALSE

\* C14 (as claimed): for a response to the POST, execute_check_in returns
\* True exactly when the status is 200 and either the body is JSON with
\* ret = 1, code = 0 or a truthy success, or the body is not JSON and holds
\* "success" in any case; for every other status or body it returns False
\* and does not raise.
C14_Classification ==
    (pc = "done" /\ call.fn = "execute_check_in" /\ call.reply.kind = "resp") =>
        /\ ~returned.raised
        /\ returned.val <=> ClaimedSuccess(call.reply)

\* ---- the balance outcome
UserInfoDone == pc = "done" /\ call.fn = "get_user_info"

\* the reply is a 200 response whose body is a JSON object with a truthy
\* success field
TruthySuccess(reply) ==
    /\ reply.kind = "resp"
    /\ reply.status = 200
    /\ reply.body.json = "obj"
    /\ "success" \in DOMAIN reply.body.obj
    /\ reply.body.obj["success"] = TRUE

\* the data of that body is absent or an object
DataIsObject(reply) ==
    LET data == Get(reply.body.obj, "data", EmptyDict)
    IN data # None /\ "json" \notin DOMAIN data

\* the amounts of that data are absent or can be divided: numbers, true,
\* false
AmountsDivide(reply) ==
    LET data == Get(reply.body.obj, "data", EmptyDict)
    IN /\ ~Divide(Get(data, "quota", Num(0))).raised
       /\ ~Divide(Get(data, "used_quota", Num(0))).raised

IsSuccessOutcome(out) ==
    /\ out.success
    /\ {"quota", "used_quota"} \subseteq DOMAIN out

IsFailureOutcome(out) ==
    /\ ~out.success
    /\ "error" \in DOMAIN out
    /\ out.error.kind \in {"http", "exc"}

\* a balance request that failed does not end check_in_account with
\* (False, None) and does not reach the exception handler of the loop
BalanceFailureKept ==
    /\ pc = "except" => ~Issued("get")
    /\ (InAccount /\ Issued("get")) =>
        /\ pc = "record"
        /\ ret.user_info # None
        /\ Entry("get").result = "False" => IsFailureOutcome(ret.user_info)

\* C15 (as claimed): get_user_info returns a success outcome with quota and
\* used_quota for every 200 response whose JSON body has a truthy success
\* field, and a failure outcome with a diagnostic for everything else; a
\* failed balance request never makes check_in_account return (False, None)
\* or abort the batch.
C15_AsClaimed ==
    /\ UserInfoDone =>
            IF TruthySuccess(call.reply)
            THEN IsSuccessOutcome(returned)
            ELSE IsFailureOutcome(returned)
    /\ BalanceFailureKept

\* C15 (amended): get_user_info returns a success outcome with quota and
\* used_quota, missing amounts counting as 0, for every 200 response whose
\* JSON body has a truthy success field, whose data is absent or an object
\* and whose amounts are absent or can be divided by 500000 (numbers, true,
\* false); for any other status, a falsy success, a body that is not a JSON
\* object, data that is not an object, an amount that cannot be divided
\* (null, a string, an array), or a network exception it returns a failure
\* outcome with a diagnostic; it never raises, and a failed balance request
\* never makes check_in_account return (False, None) or abort the batch.
C15_BalanceOutcome ==
    /\ UserInfoDone =>
            IF /\ TruthySuccess(call.reply)
               /\ DataIsObject(call.reply)
               /\ AmountsDivide(call.reply)
            THEN /\ IsSuccessOutcome(returned)
                 /\ LET data == Get(call.reply.body.obj, "data", EmptyDict)
                    IN /\ returned.quota = Divide(Get(data, "quota", Num(0))).val
                       /\ returned.used_quota = Divide(Get(data, "used_quota", Num(0))).val
            ELSE IsFailureOutcome(returned)
    /\ BalanceFailureKept

\* C15 witness: a 200 response with a truthy success field whose data is
\* an object with a null quota: the division raises and get_user_info
\* returns the failure outcome with the text of the TypeError
C15_Witness ==
    /\ UserInfoDone
    /\ TruthySuccess(call.reply)
    /\ DataIsObject(call.reply)
    /\ Get(call.reply.body.obj, "data", EmptyDict) = ("quota" :> None)
    /\ returned = [success |-> FALSE, error |-> ExcError([id |-> "TypeError", len |-> 55])]

\* ---- the merged cookie set
MergeDone == pc = "done" /\ call.fn = "prepare_cookies"

\* what the bootstrap of the call delivered
Bootstrap == get_waf_cookies_with_playwright(call.browser, call.provider_config.waf_cookie_names)

\* the provider requires anti-bot cookies and the bootstrap did not deliver
\* them: it raised or returned None
BootstrapFailed ==
    /\ needs_waf_cookies(call.provider_config)
    /\ (Bootstrap.raised \/ Bootstrap.val = None)

\* C17 (as claimed): the merged cookie set is the bootstrap cookies
\* overlaid by the user's cookies: it has every key of either set, and a key
\* of both has the user's value.  The merge gives no result only when the
\* provider requires anti-bot cookies and the bootstrap failed; in every
\* other case it gives the merged set, also when the bootstrap succeeded
\* with an empty set.
C17_UserCookiesWin ==
    MergeDone =>
        IF BootstrapFailed
        THEN returned.raised \/ returned.val = None
        ELSE LET boot == IF needs_waf_cookies(call.provider_config)
                         THEN Bootstrap.val ELSE EmptyDict
                 user == call.user_cookies
             IN /\ ~returned.raised
                /\ returned.val # None
                /\ DOMAIN returned.val = DOMAIN boot \cup DOMAIN user
                /\ \A k \in DOMAIN user : returned.val[k] = user[k]
                /\ \A k \in DOMAIN boot \ DOMAIN user : returned.val[k] = boot[k]

\* ---- the parsed cookies
ParseDone == pc = "done" /\ call.fn = "parse_cookies"

\* the segments of t between semicolons, each as <<lo, hi>>: the segment is
\* the text strictly between the positions lo and hi
Cuts(t) == {0, Len(t) + 1} \cup {k \in 1..Len(t) : t[k] = ";"}
SegmentBounds(t) ==
    {b \in Cuts(t) \X Cuts(t) :
        b[1] < b[2] /\ \A c \in Cuts(t) : ~(b[1] < c /\ c < b[2])}
SegmentText(t, b) == SubSeq(t, b[1] + 1, b[2] - 1)

\* t without the whitespace at its ends
Trimmed(t) ==
    LET inked == {k \in 1..Len(t) : t[k] \notin Whitespace}
    IN IF inked = {} THEN <<>>
       ELSE SubSeq(t, CHOOSE k \in inked : \A j \in inked : k <= j,
                      CHOOSE k \in inked : \A j \in inked : j <= k)

\* key and value of a segment that holds "=": the trimmed segment is cut at
\* its first "="; with around, key and value are trimmed once more
KeyValue(seg, around) ==
    LET tt == Trimmed(seg)
        eqs == {k \in 1..Len(tt) : tt[k] = "="}
        e == CHOOSE k \in eqs : \A j \in eqs : k <= j
        key == SubSeq(tt, 1, e - 1)
        value == SubSeq(tt, e + 1, Len(tt))
    IN IF around THEN <<Trimmed(key), Trimmed(value)>> ELSE <<key, value>>

\* d holds exactly the pairs of the segments of t with "=", the last
\* segment winning for a key that occurs twice
HoldsPairsOf(d, t, around) ==
    LET pairs == {b \in SegmentBounds(t) : \E k \in (b[1] + 1)..(b[2] - 1) : t[k] = "="}
    IN /\ DOMAIN d = {KeyValue(SegmentText(t, b), around)[1] : b \in pairs}
       /\ \A key \in DOMAIN d :
            \E b \in pairs :
                /\ KeyValue(SegmentText(t, b), around) = <<key, d[key]>>
                /\ \A c \in pairs :
                    KeyValue(SegmentText(t, c), around)[1] = key => c[1] <= b[1]

\* C18 (as claimed): parse_cookies maps a semicolon-delimited string to the
\* key/value pairs of its segments that hold "=", cut at the first "=", with
\* the whitespace around the segment and around the "=" removed; segments
\* without "=" are dropped; a mapping is returned unchanged.
C18_AsClaimed ==
    ParseDone =>
        /\ call.cookies_data.kind = "str" =>
                HoldsPairsOf(returned, call.cookies_data.val, TRUE)
        /\ call.cookies_data.kind = "dict" => returned = call.cookies_data.val

\* C18 (amended): parse_cookies maps a semicolon-delimited string to the
\* key/value pairs of its segments that hold "=": the whitespace around the
\* segment is removed, then the segment is cut at its first "=", and
\* whitespace next to the "=" stays in the key and in the value; of two
\* segments with
\* the same key the later one counts; segments without "=" are dropped; a
\* mapping is returned unchanged.
C18_ParseCookies ==
    ParseDone =>
        /\ call.cookies_data.kind = "str" =>
                HoldsPairsOf(returned, call.cookies_data.val, FALSE)
        /\ call.cookies_data.kind = "dict" => returned = call.cookies_data.val

\* C18 witness: "a =b" is parsed to the key "a " with the value "b"
C18_Witness ==
    /\ ParseDone
    /\ call.cookies_data.kind = "str"
    /\ call.cookies_data.val = <<"a", " ", "=", "b">>
    /\ DOMAIN returned = {<<"a", " ">>}
    /\ returned[<<"a", " ">>] = <<"b">>

\* ---- the count of successes
SuccessEntries == {k \in 1..Len(summary_results) : summary_results[k].success}

\* C19: between two accounts and when the loop has ended, success_count is
\* the number of entries of summary_results marked as success, also when
\* accounts ended in the exception handler of the loop; so the statistics
\* handed to the notification and the exit code of main agree with the
\* entries.
C19_CountMatchesEntries ==
    /\ (pc = "loop" \/ AfterLoop) => success_count = Cardinality(SuccessEntries)
    /\ \A k \in 1..Len(pushes) :
        pushes[k].stats = <<Cardinality(SuccessEntries), Len(summary_results)>>
    /\ (pc = "exited" /\ exit_via = "main") =>
        (exit_code = Some(0) <=> SuccessEntries # {})

\* C19 witness: of two accounts one succeeded and one raised; the
\* notification reported 1/2 and main exited with 0
C19_Witness ==
    /\ pc = "exited"
    /\ exit_via = "main"
    /\ Len(summary_results) = 2
    /\ Cardinality(SuccessEntries) = 1
    /\ \E k \in 1..2 : IsExceptionEntry(k)
    /\ success_count = 1
    /\ Len(pushes) = 1
    /\ pushes[1].stats = <<1, 2>>
    /\ exit_code = Some(0)

\* ---- the exit code and the reporting steps
\* notify.push_message raised and the exception left main
NotifyRaised == exit_via = "exception" /\ Len(pushes) = 1 /\ exc = NotifyError

\* the fingerprint was computed and balance_hash.txt could not be written
SaveFailed == saves # <<>> /\ hash_file # saves[1].hash

\* C20 (as claimed): a run that got through the loop with at least one
\* account succeeding exits with 0, whatever failed in the reporting steps
\* after the loop: writing the step summary, saving the fingerprint, or
\* notify.push_message raising.
C20_AsClaimed ==
    (pc = "exited" /\ AfterLoop /\ SuccessEntries # {}) => exit_code = Some(0)

\* C20 (amended): a run that got through the loop exits with 0 exactly when
\* at least one account succeeded and notify.push_message did not raise: a
\* step summary that cannot be written and a fingerprint that cannot be
\* saved leave the exit code alone, but an exception of notify.push_message
\* leaves main and run_main exits with 1.
C20_ExitAfterReporting ==
    (pc = "exited" /\ AfterLoop) =>
        /\ exit_code = Some(0) <=> (SuccessEntries # {} /\ ~NotifyRaised)
        /\ exit_via = "exception" => NotifyRaised

\* C20 witness: an account succeeded, the step summary was not written and
\* the fingerprint could not be saved; main exited with 0
C20_Witness ==
    /\ pc = "exited"
    /\ exit_via = "main"
    /\ SuccessEntries # {}
    /\ step_summary = <<>>
    /\ SaveFailed
    /\ exit_code = Some(0)

====
